---- MODULE Spec2Model ----
(***************************************************************************)
(* A model of the zelda64 toolkit's dmadata handling:                      *)
(*   - dma.rs        Entry (kind, real_phys, validate, diff, read),        *)
(*                   Table::find_offset, Table::find_header, Table::find,  *)
(*                   Header::parse                                         *)
(*   - rom.rs        Rom (patch, update, write, write_with_update)         *)
(*   - decompress.rs decompress_rom                                        *)
(*   - util.rs       align16, read_until, get_align, align_forward         *)
(* and of the n64rom container it uses:                                    *)
(*   - rom.rs        Rom (check_crc, correct_crc, flush, write)            *)
(*   - convert.rs    convert, convert_rom                                  *)
(*                                                                         *)
(* Machine words.  The code computes in u32.  The model keeps the          *)
(* arithmetic of a fixed-width unsigned word (overflow either aborts, as   *)
(* in a build with overflow checks, or wraps modulo the word range, as in  *)
(* a build without them) but uses words of WordBits bits, and keeps the    *)
(* ratio between the word range and the output capacity (2^32 / 2^26).     *)
(***************************************************************************)
EXTENDS Integers, Sequences, FiniteSets, TLC

VARIABLES
    overflow_checks, \* build profile: TRUE = arithmetic overflow aborts, FALSE = it wraps
    \* ---- Entry operations (dma.rs) ----
    entry,           \* the Entry an operation is applied to
    op,              \* the operation applied: "none", "kind", "real_phys", "validate", "diff"
    ret,             \* what the operation returned
    \* ---- decompress_rom (decompress.rs) ----
    rom_table,       \* rom.table: <<>> (None) or <<entries>> (Some)
    image_len,       \* rom.rom.full().len(): length of the source image
    matching,        \* options.matching
    pc,              \* position in decompress_rom: "start", "loop", "done"
    index,           \* 1-based position of the for loop in table.entries
    offset,          \* let mut offset
    entries,         \* let mut entries: the output entries pushed so far
    data,            \* let mut data: the output buffer
    result,          \* "none" while running, then "Ok", an error, or "panic"
    err_range,       \* the range carried by OutOfRangeError, <<>> when none
    \* ---- Table::find_offset (dma.rs) ----
    stream,          \* the bytes of the stream that is scanned
    scan_offset,     \* let mut offset
    amount,          \* let amount: bytes read by the last stream.read
    reads,           \* number of loop iterations (stream.read calls) so far
    scan_pc,         \* position in find_offset: "loop" or "done"
    found,           \* the value returned: <<>> (Ok(None)) or <<offset>> (Ok(Some(offset)))
    \* ---- Table::find and Rom (dma.rs, rom.rs) ----
    body,            \* rom.data(): the bytes of the image after the head
    crc,             \* header.crc1 / header.crc2: the stored checksums
    header_offset,   \* what find_header returned: <<>> (None) or <<offset>>
    current,         \* let mut current: position of the entry read next
    parse_end,       \* let mut end: <<>> (None) or <<end>>
    table_entries,   \* let mut entries: the entries parsed so far
    parse_pc,        \* position in Table::find: "start", "loop", "done"
    parse_result,    \* "none" while parsing, then "Ok", "IOError" or "panic"
    table,           \* Rom::table: <<>> (None) or <<[entries, offset]>>
    rom_op,          \* the Rom operation applied: "none", "patch", "update", ...
    rom_ret,         \* what the operation returned
    image_crc,       \* the checksum fields as stored in image[..HEAD_SIZE]
    writer,          \* what the writer was given: <<>> (nothing) or <<image>>
    \* ---- Table::find_header, Header::parse (dma.rs) ----
    hstream,         \* the stream find_header reads
    hoffset,         \* the offset find_offset returned
    cursor,          \* position of the Cursor over the 0x30 header bytes
    version,         \* Version::from of the bytes read: "none" until then
    date_field,      \* the bytes read into build_date: <<>> or <<start..end>>
    hpc,             \* position in find_header: "read", "parse", "date", "done"
    hresult,         \* "none" while running, then "Ok" or an error
    table_start,     \* Table::find's current after find_header: <<>> or <<current>>
    \* ---- Entry::read and the table encoding ----
    enc_entries,     \* the entries that are encoded
    enc_bytes,       \* the bytes written for them
    dec_entries,     \* the entries read back from those bytes
    enc_pc,          \* "write", "read", "done"
    \* ---- convert, convert_rom (convert.rs) ----
    image,           \* rom.image / buf: the bytes converted
    image0,          \* the bytes before the first conversion
    order,           \* rom.order: the byte order the Rom records
    target,          \* the target of the last call: <<>> or <<target>>
    status,          \* what the last call returned: "none", a ConvertStatus or an error
    calls            \* number of conversions applied so far

vars == <<overflow_checks, entry, op, ret,
          rom_table, image_len, matching, pc, index, offset, entries, data,
          result, err_range,
          stream, scan_offset, amount, reads, scan_pc, found,
          body, crc, header_offset, current, parse_end, table_entries,
          parse_pc, parse_result, table, rom_op, rom_ret, image_crc, writer,
          hstream, hoffset, cursor, version, date_field, hpc, hresult,
          table_start,
          enc_entries, enc_bytes, dec_entries, enc_pc,
          image, image0, order, target, status, calls>>

entry_vars == <<entry, op, ret>>
decompress_vars == <<rom_table, image_len, matching, pc, index, offset,
                     entries, data, result, err_range>>
find_vars == <<stream, scan_offset, amount, reads, scan_pc, found>>
rom_vars == <<body, crc, header_offset, current, parse_end, table_entries,
              parse_pc, parse_result, table, rom_op, rom_ret, image_crc,
              writer>>
header_vars == <<hstream, hoffset, cursor, version, date_field, hpc, hresult,
                 table_start>>
codec_vars == <<enc_entries, enc_bytes, dec_entries, enc_pc>>
convert_vars == <<image, image0, order, target, status, calls>>

(***************************************************************************)
(* Words                                                                   *)
(***************************************************************************)
WordBits == 12

RECURSIVE Pow2(_)
Pow2(n) == IF n = 0 THEN 1 ELSE 2 * Pow2(n - 1)

\* The number of values of a word (2^32 in the code).
U32_MOD == Pow2(WordBits)

\* ::std::u32::MAX
U32_MAX == U32_MOD - 1

\* The result of an unsigned addition: the sum, or an abort / a wrapped sum
\* when it does not fit the word.
CheckedAdd(a, b) ==
    IF a + b <= U32_MAX
    THEN [panic |-> FALSE, value |-> a + b]
    ELSE IF overflow_checks
         THEN [panic |-> TRUE, value |-> 0]
         ELSE [panic |-> FALSE, value |-> (a + b) % U32_MOD]

\* Option values: None is <<>>, Some(x) is <<x>>.
None == <<>>
Some(x) == <<x>>

Range(s, e) == [start |-> s, end |-> e]

\* Range<u32>::len(): an empty range (start >= end) has length 0.
RangeLen(r) == IF r.start < r.end THEN r.end - r.start ELSE 0

(***************************************************************************)
(* Entry (dma.rs)                                                          *)
(***************************************************************************)
Entry(vs, ve, ps, pe) ==
    [virtual_start |-> vs, virtual_end |-> ve,
     physical_start |-> ps, physical_end |-> pe]

phys(e) == Range(e.physical_start, e.physical_end)

virt(e) == Range(e.virtual_start, e.virtual_end)

to_vec(e) ==
    <<e.virtual_start, e.virtual_end, e.physical_start, e.physical_end>>

\* A kind() whose DoesNotExist test looks at physical_start alone.
kind_dne_start_only(e) ==
    IF \A i \in 1..4 : to_vec(e)[i] = 0 THEN "Empty"
    ELSE IF phys(e).start = U32_MAX THEN "DoesNotExist"
    ELSE IF phys(e).end = 0 THEN "Decompressed"
    ELSE "Compressed"

kind(e) ==
    IF \A i \in 1..4 : to_vec(e)[i] = 0 THEN "Empty"
    ELSE IF phys(e).start = U32_MAX /\ phys(e).end = U32_MAX THEN "DoesNotExist"
    ELSE IF phys(e).end = 0 THEN "Decompressed"
    ELSE "Compressed"

real_phys(e) ==
    LET k == kind(e)
    IN  IF k = "Compressed"
        THEN [panic |-> FALSE, range |-> Some(phys(e)), kind |-> k]
        ELSE IF k = "Decompressed"
        THEN LET length == RangeLen(virt(e))
                 sum == CheckedAdd(e.physical_start, length)
             IN  [panic |-> sum.panic,
                  range |-> Some(Range(e.physical_start, sum.value)),
                  kind |-> k]
        ELSE [panic |-> FALSE, range |-> None, kind |-> k]

\* The values validate() and diff() produce.  tag is "Ok", "Err" or "panic";
\* the fields a tag does not use hold None / "".
Panic ==
    [tag |-> "panic", mapping |-> "", range |-> None,
     virt |-> None, phys |-> None, kind |-> "", diff |-> None]

InvalidRange(m, r) ==
    [tag |-> "Err", mapping |-> m, range |-> Some(r),
     virt |-> None, phys |-> None, kind |-> "", diff |-> None]

OkValidate(v, p, k) ==
    [tag |-> "Ok", mapping |-> "", range |-> None,
     virt |-> Some(v), phys |-> p, kind |-> k, diff |-> None]

\* A validate() that checks the physical range before the virtual one.
validate_physical_first(e) ==
    LET rp == real_phys(e)
    IN  IF rp.panic THEN Panic
        ELSE IF rp.range # None /\ rp.range[1].start > rp.range[1].end
        THEN InvalidRange("Physical", rp.range[1])
        ELSE IF virt(e).start > virt(e).end
        THEN InvalidRange("Virtual", virt(e))
        ELSE OkValidate(virt(e), rp.range, rp.kind)

validate(e) ==
    LET rp == real_phys(e)
    IN  IF rp.panic THEN Panic
        ELSE IF virt(e).start > virt(e).end
        THEN InvalidRange("Virtual", virt(e))
        ELSE IF rp.range # None
        THEN IF rp.range[1].start > rp.range[1].end
             THEN InvalidRange("Physical", rp.range[1])
             ELSE OkValidate(virt(e), rp.range, rp.kind)
        ELSE OkValidate(virt(e), None, rp.kind)

OkDiff(d) ==
    [tag |-> "Ok", mapping |-> "", range |-> None,
     virt |-> None, phys |-> None, kind |-> "", diff |-> d]

diff(e) ==
    LET v == validate(e)
    IN  IF v.tag # "Ok" THEN v
        ELSE IF v.phys # None
        THEN OkDiff(Some(RangeLen(v.virt[1]) - RangeLen(v.phys[1])))
        ELSE OkDiff(None)

\* What kind() and real_phys() return, in the shape of the other results.
OkKind(k) ==
    [tag |-> "Ok", mapping |-> "", range |-> None,
     virt |-> None, phys |-> None, kind |-> k, diff |-> None]

OkRealPhys(rp) ==
    IF rp.panic THEN Panic
    ELSE [tag |-> "Ok", mapping |-> "", range |-> None,
          virt |-> None, phys |-> rp.range, kind |-> rp.kind, diff |-> None]

NoReturn ==
    [tag |-> "none", mapping |-> "", range |-> None,
     virt |-> None, phys |-> None, kind |-> "", diff |-> None]

(***************************************************************************)
(* Entry operations applied to entries over boundary field values.         *)
(***************************************************************************)
\* Field values: zero, small offsets, the lengths 40 and 100, and the top of
\* the word range.
FieldValues == {0, 1, 16, 40, 100, U32_MAX - 15, U32_MAX - 1, U32_MAX}

AllEntries ==
    {Entry(vs, ve, ps, pe) : vs \in FieldValues, ve \in FieldValues,
                             ps \in FieldValues, pe \in FieldValues}

\* The parts of the state the Entry operations leave alone.
DecompressIdle ==
    /\ rom_table = None
    /\ image_len = 0
    /\ matching = TRUE
    /\ pc = "idle"
    /\ index = 1
    /\ offset = 0
    /\ entries = <<>>
    /\ data = <<>>
    /\ result = "none"
    /\ err_range = None

FindIdle ==
    /\ stream = <<>>
    /\ scan_offset = 0
    /\ amount = 0
    /\ reads = 0
    /\ scan_pc = "idle"
    /\ found = None

\* The value a Rom operation returns: tag is "none", "Ok" or "Err" (or "true"
\* or "false" for a bool), amount the number of bytes written.
RomReturn(t, n) == [tag |-> t, amount |-> n]

RomIdle ==
    /\ body = <<>>
    /\ crc = <<>>
    /\ header_offset = None
    /\ current = 0
    /\ parse_end = None
    /\ table_entries = <<>>
    /\ parse_pc = "idle"
    /\ parse_result = "none"
    /\ table = None
    /\ rom_op = "idle"
    /\ rom_ret = RomReturn("none", 0)
    /\ image_crc = <<>>
    /\ writer = None

HeaderIdle ==
    /\ hstream = <<>>
    /\ hoffset = 0
    /\ cursor = 0
    /\ version = "none"
    /\ date_field = None
    /\ hpc = "idle"
    /\ hresult = "none"
    /\ table_start = None

CodecIdle ==
    /\ enc_entries = <<>>
    /\ enc_bytes = <<>>
    /\ dec_entries = <<>>
    /\ enc_pc = "idle"

ConvertIdle ==
    /\ image = <<>>
    /\ image0 = <<>>
    /\ order = "Big"
    /\ target = None
    /\ status = "idle"
    /\ calls = 0

EntryIdle ==
    /\ entry = Entry(0, 0, 0, 0)
    /\ op = "idle"
    /\ ret = NoReturn

InitEntry ==
    /\ overflow_checks \in BOOLEAN
    /\ entry \in AllEntries
    /\ op = "none"
    /\ ret = NoReturn
    /\ DecompressIdle
    /\ FindIdle
    /\ RomIdle
    /\ HeaderIdle
    /\ CodecIdle
    /\ ConvertIdle

CallKind ==
    /\ op = "none"
    /\ op' = "kind"
    /\ ret' = OkKind(kind(entry))
    /\ UNCHANGED <<overflow_checks, entry, decompress_vars, find_vars, rom_vars,
                   header_vars, codec_vars, convert_vars>>

CallRealPhys ==
    /\ op = "none"
    /\ op' = "real_phys"
    /\ ret' = OkRealPhys(real_phys(entry))
    /\ UNCHANGED <<overflow_checks, entry, decompress_vars, find_vars, rom_vars,
                   header_vars, codec_vars, convert_vars>>

CallValidate ==
    /\ op = "none"
    /\ op' = "validate"
    /\ ret' = validate(entry)
    /\ UNCHANGED <<overflow_checks, entry, decompress_vars, find_vars, rom_vars,
                   header_vars, codec_vars, convert_vars>>

CallDiff ==
    /\ op = "none"
    /\ op' = "diff"
    /\ ret' = diff(entry)
    /\ UNCHANGED <<overflow_checks, entry, decompress_vars, find_vars, rom_vars,
                   header_vars, codec_vars, convert_vars>>

NextEntry == CallKind \/ CallRealPhys \/ CallValidate \/ CallDiff

SpecEntry == InitEntry /\ [][NextEntry]_vars

(***************************************************************************)
(* decompress_rom (decompress.rs)                                          *)
(***************************************************************************)
\* Decompressed rom capacity (1024 * 1024 * 64 = 2^32 / 64 in the code).
ROM_CAPACITY == U32_MOD \div 64

\* Length of the source image, rom.rom.full().len().
ImageLen == 48

\* Longest table.
MaxEntries == 2

\* (value + 0xF) & !0xF
align16(value) ==
    LET sum == CheckedAdd(value, 15)
    IN  [panic |-> sum.panic, value |-> sum.value - (sum.value % 16)]

\* The bytes of the buffers.  The output buffer starts as zeroes; a byte
\* copied from the source image is named by its offset there, a byte the
\* codec decoded by the offset of its archive and its position in the
\* decoded content.
Zero == <<"zero", 0, 0>>
RawByte(i) == <<"raw", i, 0>>
Yaz0Byte(at, k) == <<"yaz0", at, k>>

\* Entry::from_uncompressed(virtual_start, virtual_end, physical_start)
from_uncompressed(vs, ve, ps) == Entry(vs, ve, ps, 0)

\* Entry::range_usize(): the real physical range, as usize.
range_usize(e) == real_phys(e).range

\* Rom::slice: is the entry's range a valid index range of the image?
\* (&self.rom.full()[range] aborts when it is not.)
slice_in_bounds(e) ==
    LET range == range_usize(e)
    IN  /\ range # None
        /\ range[1].start <= range[1].end
        /\ range[1].end <= image_len

\* An output range that follows the compact policy whatever the options say.
outrange_always_compact(v, off) ==
    LET length == align16(RangeLen(v))
        end == CheckedAdd(off, length.value)
    IN  IF length.panic \/ end.panic
        THEN [panic |-> TRUE, range |-> Range(0, 0), offset |-> off]
        ELSE [panic |-> FALSE, range |-> Range(off, end.value),
              offset |-> end.value]

\* let outrange = if options.matching { virt.clone() } else { ... }:
\* the output range and the value of offset afterwards.
outrange(v, off) ==
    IF matching
    THEN [panic |-> FALSE, range |-> v, offset |-> off]
    ELSE LET length == align16(RangeLen(v))
             end == CheckedAdd(off, length.value)
         IN  IF length.panic \/ end.panic
             THEN [panic |-> TRUE, range |-> Range(0, 0), offset |-> off]
             ELSE [panic |-> FALSE, range |-> Range(off, end.value),
                   offset |-> end.value]

\* A get_mut that does not look at the length of the buffer.
get_mut_unchecked(r) == r.start <= r.end

\* data.get_mut(outrange.to_usize()) is Some
get_mut_ok(r) == r.start <= r.end /\ r.end <= ROM_CAPACITY

\* The buffer after output (the slice r of it) was filled from the source
\* image at `from` (copy_from_slice) or by the codec (decompress_into).
copy_from_slice(buf, r, from) ==
    [i \in DOMAIN buf |->
        IF r.start <= i /\ i < r.end THEN RawByte(from + (i - r.start))
        ELSE buf[i]]

decompress_into(buf, r, from) ==
    [i \in DOMAIN buf |->
        IF r.start <= i /\ i < r.end THEN Yaz0Byte(from, i - r.start)
        ELSE buf[i]]

\* A clone that re-tags the entry as the rewritten entries are.
clone_retagged(e) == from_uncompressed(e.virtual_start, e.virtual_end, 0)

\* entry.clone()
clone(e) == e

\* The tables decompress_rom is run on: files of a few lengths at a few
\* virtual addresses, stored raw or compressed, the two entries without a
\* file, and malformed entries.
FileStarts == {0, 16}
FileLengths == {0, 8, 16}
StoredAt == 16

RawFiles ==
    {Entry(vs, vs + len, StoredAt, 0) : vs \in FileStarts, len \in FileLengths}

CompressedFiles ==
    {Entry(vs, vs + len, StoredAt, StoredAt + 8) :
        vs \in FileStarts, len \in FileLengths}

UnmappedEntries == {Entry(0, 0, 0, 0), Entry(16, 32, U32_MAX, U32_MAX)}

MalformedEntries ==
    { Entry(32, 16, StoredAt, 0),                        \* virtual range reversed
      Entry(16, 32, StoredAt + 8, StoredAt),             \* physical range reversed
      Entry(0, 16, U32_MAX - 7, 0),                      \* physical end past the word range
      Entry(0, U32_MAX, StoredAt, StoredAt + 8),         \* virtual length near the word range
      Entry(ROM_CAPACITY - 8, ROM_CAPACITY + 8, StoredAt, 0), \* past the output buffer
      Entry(16, 32, ImageLen, 0),                        \* past the source image
      Entry(0, ROM_CAPACITY + 16, StoredAt, StoredAt + 8) } \* longer than the output buffer

InputEntries ==
    RawFiles \cup CompressedFiles \cup UnmappedEntries \cup MalformedEntries

RECURSIVE SeqsUpTo(_, _)
SeqsUpTo(S, n) ==
    IF n = 0 THEN {<<>>}
    ELSE LET shorter == SeqsUpTo(S, n - 1)
         IN  shorter \cup {Append(t, x) : t \in {u \in shorter : Len(u) = n - 1}, x \in S}

InitDecompress ==
    /\ overflow_checks \in BOOLEAN
    /\ rom_table \in {None} \cup {Some(t) : t \in SeqsUpTo(InputEntries, MaxEntries)}
    /\ image_len = ImageLen
    /\ matching \in BOOLEAN
    /\ pc = "start"
    /\ index = 1
    /\ offset = 0
    /\ entries = <<>>
    /\ data = <<>>
    /\ result = "none"
    /\ err_range = None
    /\ EntryIdle
    /\ FindIdle
    /\ RomIdle
    /\ HeaderIdle
    /\ CodecIdle
    /\ ConvertIdle

\* decompress_rom returns early (an error through `?`) or aborts.
Halt(r, er) ==
    /\ pc' = "done"
    /\ result' = r
    /\ err_range' = er

\* Lines 51-55: allocate the buffer, unwrap the table.
DecompressBegin ==
    /\ pc = "start"
    /\ data' = [i \in 0..(ROM_CAPACITY - 1) |-> Zero]
    /\ entries' = <<>>
    /\ offset' = 0
    /\ index' = 1
    /\ IF rom_table = None
       THEN Halt("panic", None)
       ELSE /\ pc' = "loop"
            /\ UNCHANGED <<result, err_range>>
    /\ UNCHANGED <<overflow_checks, rom_table, image_len, matching,
                   entry_vars, find_vars, rom_vars,
                   header_vars, codec_vars, convert_vars>>

\* One iteration of `for entry in &table.entries`.  codec is the outcome of
\* the Yaz0 codec on the entry's input, should it be run.
DecompressEntry(codec) ==
    /\ pc = "loop"
    /\ index <= Len(rom_table[1])
    /\ LET e == rom_table[1][index]
           v == validate(e)
       IN  IF v.tag = "panic"
           THEN Halt("panic", None) /\ UNCHANGED <<index, offset, entries, data>>
           ELSE IF v.tag = "Err"
           THEN Halt("DmaError", None) /\ UNCHANGED <<index, offset, entries, data>>
           ELSE IF v.phys = None
           THEN /\ entries' = Append(entries, clone(e))
                /\ index' = index + 1
                /\ UNCHANGED <<pc, result, err_range, offset, data>>
           ELSE IF ~slice_in_bounds(e)
           THEN Halt("panic", None) /\ UNCHANGED <<index, offset, entries, data>>
           ELSE LET out == outrange(v.virt[1], offset)
                    input == range_usize(e)[1]
                    new == from_uncompressed(v.virt[1].start, v.virt[1].end,
                                             out.range.start)
                IN  IF out.panic
                    THEN Halt("panic", None)
                         /\ UNCHANGED <<index, offset, entries, data>>
                    ELSE IF ~get_mut_ok(out.range)
                    THEN /\ Halt("OutOfRangeError", Some(out.range))
                         /\ offset' = out.offset
                         /\ UNCHANGED <<index, entries, data>>
                    ELSE IF v.kind = "Compressed"
                    THEN IF codec = "error"
                         THEN /\ Halt("Yaz0Error", None)
                              /\ offset' = out.offset
                              /\ UNCHANGED <<index, entries, data>>
                         ELSE /\ data' = decompress_into(data, out.range, input.start)
                              /\ entries' = Append(entries, new)
                              /\ offset' = out.offset
                              /\ index' = index + 1
                              /\ UNCHANGED <<pc, result, err_range>>
                    ELSE IF RangeLen(out.range) # RangeLen(input)
                    THEN /\ Halt("panic", None)
                         /\ offset' = out.offset
                         /\ UNCHANGED <<index, entries, data>>
                    ELSE /\ data' = copy_from_slice(data, out.range, input.start)
                         /\ entries' = Append(entries, new)
                         /\ offset' = out.offset
                         /\ index' = index + 1
                         /\ UNCHANGED <<pc, result, err_range>>
    /\ UNCHANGED <<overflow_checks, rom_table, image_len, matching,
                   entry_vars, find_vars, rom_vars,
                   header_vars, codec_vars, convert_vars>>

\* Lines 92-96: the loop is over, the new Rom is returned.
DecompressFinish ==
    /\ pc = "loop"
    /\ index > Len(rom_table[1])
    /\ Halt("Ok", None)
    /\ UNCHANGED <<index, offset, entries, data>>
    /\ UNCHANGED <<overflow_checks, rom_table, image_len, matching,
                   entry_vars, find_vars, rom_vars,
                   header_vars, codec_vars, convert_vars>>

NextDecompress ==
    \/ DecompressBegin
    \/ \E codec \in {"ok", "error"} : DecompressEntry(codec)
    \/ DecompressFinish

SpecDecompress == InitDecompress /\ [][NextDecompress]_vars

(***************************************************************************)
(* Table::find_offset (dma.rs)                                             *)
(***************************************************************************)
\* Table structure alignment.
TABLE_ALIGN == 16

\* Table header magic string, b"zelda@srd".
TABLE_MAGIC == <<122, 101, 108, 100, 97, 64, 115, 114, 100>>

\* Longest stream scanned.
MaxStreamLen == 40

Min(a, b) == IF a < b THEN a ELSE b

\* stream.read(&mut magic) at position off of a Cursor over buf: as many
\* bytes as the 9-byte buffer takes and the stream still has (none at or
\* past its end).
read(buf, off) ==
    IF off >= Len(buf) THEN 0 ELSE Min(Len(TABLE_MAGIC), Len(buf) - off)

\* A comparison of the first five bytes ("zelda") alone.
magic_matches_prefix(buf, off) ==
    \A k \in 1..5 : buf[off + k] = TABLE_MAGIC[k]

\* magic == TABLE_MAGIC, for the 9 bytes read at off.
magic_matches(buf, off) ==
    \A k \in 1..Len(TABLE_MAGIC) : buf[off + k] = TABLE_MAGIC[k]

\* A scan that moves on by the bytes it has read.
advance_by_read(off) == off + Len(TABLE_MAGIC)

\* offset = offset + align
advance(off) == off + TABLE_ALIGN

\* The streams scanned: zero bytes of any length up to MaxStreamLen, with
\* the magic written at up to two offsets (cut off by the end of the stream,
\* the later copy over the earlier one).
MakeStream(n, p, q) ==
    [i \in 1..n |->
        IF q <= i - 1 /\ i - 1 < q + Len(TABLE_MAGIC) THEN TABLE_MAGIC[i - q]
        ELSE IF p <= i - 1 /\ i - 1 < p + Len(TABLE_MAGIC) THEN TABLE_MAGIC[i - p]
        ELSE 0]

Streams ==
    {MakeStream(n, p, q) : n \in 0..MaxStreamLen, p \in 0..MaxStreamLen,
                           q \in 0..MaxStreamLen}

InitFind ==
    /\ overflow_checks \in BOOLEAN
    /\ stream \in Streams
    /\ scan_offset = 0
    /\ amount = 0
    /\ reads = 0
    /\ scan_pc = "loop"
    /\ found = None
    /\ EntryIdle
    /\ DecompressIdle
    /\ RomIdle
    /\ HeaderIdle
    /\ CodecIdle
    /\ ConvertIdle

\* One iteration of the loop of find_offset.
FindOffsetStep ==
    /\ scan_pc = "loop"
    /\ reads' = reads + 1
    /\ amount' = read(stream, scan_offset)
    /\ IF amount' = Len(TABLE_MAGIC)
       THEN IF magic_matches(stream, scan_offset)
            THEN /\ found' = Some(scan_offset)
                 /\ scan_pc' = "done"
                 /\ UNCHANGED scan_offset
            ELSE /\ scan_offset' = advance(scan_offset)
                 /\ UNCHANGED <<scan_pc, found>>
       ELSE /\ found' = None
            /\ scan_pc' = "done"
            /\ UNCHANGED scan_offset
    /\ UNCHANGED <<overflow_checks, stream, entry_vars, decompress_vars, rom_vars,
                   header_vars, codec_vars, convert_vars>>

NextFind == FindOffsetStep

SpecFind == InitFind /\ [][NextFind]_vars

(***************************************************************************)
(* Table::find (dma.rs) and the Rom wrapper (rom.rs)                       *)
(***************************************************************************)
\* Table entry size.
ENTRY_SIZE == 16

\* Table header size.
HEADER_SIZE == 48

\* Total size of rom header and IPL3 (0x1000 in the code; scaled with the
\* word range, a multiple of the entry size as in the code).
HEAD_SIZE == 64

\* Longest run of entries stored after the table header.
MaxRecords == 3

\* The number of values of a usize, twice as wide as a word.
USIZE_MOD == Pow2(2 * WordBits)

\* a - b in usize: the difference, or an abort / a wrapped difference when
\* a < b.
UsizeSub(a, b) ==
    IF a >= b
    THEN [panic |-> FALSE, value |-> a - b]
    ELSE IF overflow_checks
         THEN [panic |-> TRUE, value |-> 0]
         ELSE [panic |-> FALSE, value |-> a - b + USIZE_MOD]

\* A read_u32 that takes the four bytes in little-endian order.
read_u32_le(buf, pos) ==
    ((buf[pos + 4] * 256 + buf[pos + 3]) * 256 + buf[pos + 2]) * 256
    + buf[pos + 1]

\* reader.read_u32::<BigEndian>() of the four bytes at offset pos of buf.
read_u32(buf, pos) ==
    ((buf[pos + 1] * 256 + buf[pos + 2]) * 256 + buf[pos + 3]) * 256
    + buf[pos + 4]

\* Entry::read of the 16 bytes at offset pos of buf.
entry_read(buf, pos) ==
    Entry(read_u32(buf, pos), read_u32(buf, pos + 4),
          read_u32(buf, pos + 8), read_u32(buf, pos + 12))

\* A word as four big-endian bytes.
write_u32(w) ==
    <<(w \div 16777216) % 256, (w \div 65536) % 256, (w \div 256) % 256,
      w % 256>>

\* An entry as 16 bytes, its fields in order.
entry_write(e) ==
    write_u32(e.virtual_start) \o write_u32(e.virtual_end)
    \o write_u32(e.physical_start) \o write_u32(e.physical_end)

\* table.write: the entries in order, 16 bytes each, nothing between or after.
RECURSIVE table_write(_)
table_write(es) ==
    IF es = <<>> THEN <<>> ELSE entry_write(Head(es)) \o table_write(Tail(es))

\* let begin: u32 = (rom::HEAD_SIZE + current).try_into().unwrap(), with
\* current = offset + HEADER_SIZE.  (The conversion cannot fail for the
\* offsets of the images below.)
begin(off) == HEAD_SIZE + (off + HEADER_SIZE)

\* Cursor::new(slice) seeked to pos, then write(bytes): as many bytes as
\* still fit between pos and the end of the slice are written, and their
\* number is returned in Ok.
cursor_write(buf, pos, bytes) ==
    LET p == Min(pos, Len(buf))
        amt == Min(Len(bytes), Len(buf) - p)
    IN  [buf |-> [i \in 1..Len(buf) |->
                     IF p < i /\ i <= p + amt THEN bytes[i - p] ELSE buf[i]],
         amount |-> amt]

\* ipl3.compute_crcs(&image[HEAD_SIZE..]): the checksums are a function of
\* the body; the model keeps the bytes they are computed from.
compute_crcs(buf) == buf

\* The images read: up to TABLE_ALIGN zero bytes, the 0x30-byte table header
\* ("zelda@srd44", zero-padded), and the entries stored after it; or an image
\* without a table header.
TableOffsets == {0, TABLE_ALIGN}

HeaderBytes ==
    [k \in 1..HEADER_SIZE |->
        IF k <= Len(TABLE_MAGIC) THEN TABLE_MAGIC[k]
        ELSE IF k <= Len(TABLE_MAGIC) + 2 THEN 52
        ELSE 0]

\* Entries as they may be stored: their virtual_start is the table's begin
\* address or 0, their virtual_end 0 or an address 1..3 entries after begin.
ParseEntries(off) ==
    {Entry(vs, ve, 0, 0) :
        vs \in {0, begin(off)},
        ve \in {0} \cup {begin(off) + k * ENTRY_SIZE : k \in 1..3}}

BodyOf(off, recs) ==
    [i \in 1..off |-> 0] \o HeaderBytes \o table_write(recs)

NoTableBody == [i \in 1..(2 * ENTRY_SIZE) |-> 0]

\* Some((table, offset))
TableAt(es, off) == Some([entries |-> es, offset |-> off])

InitRom ==
    /\ overflow_checks \in BOOLEAN
    /\ \/ \E off \in TableOffsets :
            \E recs \in SeqsUpTo(ParseEntries(off), MaxRecords) :
                /\ header_offset = Some(off)
                /\ body = BodyOf(off, recs)
       \/ /\ header_offset = None
          /\ body = NoTableBody
    /\ crc \in {compute_crcs(body), <<>>}
    /\ current = 0
    /\ parse_end = None
    /\ table_entries = <<>>
    /\ parse_pc = "start"
    /\ parse_result = "none"
    /\ table = None
    /\ rom_op = "none"
    /\ rom_ret = RomReturn("none", 0)
    /\ image_crc = crc
    /\ writer = None
    /\ EntryIdle
    /\ DecompressIdle
    /\ FindIdle
    /\ HeaderIdle
    /\ CodecIdle
    /\ ConvertIdle

\* Table::find, lines 354-363 and 396: no header, no table; otherwise the
\* entries are read from offset + HEADER_SIZE on.
TableFindBegin ==
    /\ parse_pc = "start"
    /\ IF header_offset = None
       THEN /\ parse_pc' = "done"
            /\ parse_result' = "Ok"
            /\ UNCHANGED <<current, parse_end, table_entries>>
       ELSE /\ parse_pc' = "loop"
            /\ current' = header_offset[1] + HEADER_SIZE
            /\ parse_end' = None
            /\ table_entries' = <<>>
            /\ UNCHANGED parse_result
    /\ table' = None
    /\ UNCHANGED <<overflow_checks, body, crc, header_offset, rom_op, rom_ret,
                   entry_vars, decompress_vars, find_vars,
                   image_crc, writer, header_vars, codec_vars,
                   convert_vars>>

\* One iteration of the loop of Table::find (lines 365-386); on break the
\* table is built (lines 388-394) and Rom::read keeps it with its offset.
TableFindEntry ==
    /\ parse_pc = "loop"
    /\ IF current + ENTRY_SIZE > Len(body)
       THEN \* Entry::read fails: the stream has fewer than 16 bytes left
            /\ parse_pc' = "done"
            /\ parse_result' = "IOError"
            /\ UNCHANGED <<current, parse_end, table_entries, table>>
       ELSE LET e == entry_read(body, current)
                is_self == e.virtual_start = begin(header_offset[1])
                sub == UsizeSub(e.virtual_end, HEAD_SIZE)
                new_end == IF is_self THEN Some(sub.value) ELSE parse_end
            IN  IF is_self /\ sub.panic
                THEN /\ parse_pc' = "done"
                     /\ parse_result' = "panic"
                     /\ UNCHANGED <<current, parse_end, table_entries, table>>
                ELSE /\ parse_end' = new_end
                     /\ IF new_end # None /\ current >= new_end[1]
                        THEN /\ parse_pc' = "done"
                             /\ parse_result' = "Ok"
                             /\ table' = TableAt(table_entries, header_offset[1])
                             /\ UNCHANGED <<current, table_entries>>
                        ELSE /\ table_entries' = Append(table_entries, e)
                             /\ current' = current + ENTRY_SIZE
                             /\ UNCHANGED <<parse_pc, parse_result, table>>
    /\ UNCHANGED <<overflow_checks, body, crc, header_offset, rom_op, rom_ret,
                   entry_vars, decompress_vars, find_vars,
                   image_crc, writer, header_vars, codec_vars,
                   convert_vars>>

\* A Rom was read and no operation has been applied to it yet.
RomReady == parse_pc = "done" /\ parse_result = "Ok" /\ rom_op = "none"

\* The entries of a table rewritten as decompress_rom rewrites them.
Retagged(es) ==
    [i \in 1..Len(es) |->
        from_uncompressed(es[i].virtual_start, es[i].virtual_end,
                          es[i].virtual_start)]

\* Rom::from(rom, table): the Rom is given a table of the same length whose
\* fields have been rewritten.
RomFrom ==
    /\ RomReady
    /\ table # None
    /\ table[1].entries = table_entries
    /\ Retagged(table_entries) # table_entries
    /\ table' = TableAt(Retagged(table_entries), table[1].offset)
    /\ UNCHANGED <<overflow_checks, body, crc, header_offset, current,
                   parse_end, table_entries, parse_pc, parse_result, rom_op,
                   rom_ret, entry_vars, decompress_vars, find_vars,
                   image_crc, writer, header_vars, codec_vars,
                   convert_vars>>

\* Rom::patch(offset, bytes)
Patch(off, bytes) ==
    /\ RomReady
    /\ LET written == cursor_write(body, off, bytes)
       IN  /\ body' = written.buf
           /\ rom_ret' = RomReturn("Ok", written.amount)
    /\ rom_op' = "patch"
    /\ UNCHANGED <<overflow_checks, crc, header_offset, current, parse_end,
                   table_entries, parse_pc, parse_result, table,
                   entry_vars, decompress_vars, find_vars,
                   image_crc, writer, header_vars, codec_vars,
                   convert_vars>>

\* An update_table_data that patches nothing.
update_table_skipped(buf, t) == buf

\* update_table_data: the body after the table's bytes were patched in at
\* its offset (the body as it is when there is no table).
update_table_data(buf, t) ==
    IF t = None THEN buf
    ELSE cursor_write(buf, t[1].offset, table_write(t[1].entries)).buf

\* A correct_crc that leaves the stored checksums as they are.
correct_crc_keep(stored, buf) == stored

\* correct_crc: the stored checksums afterwards.
correct_crc(stored, buf) ==
    IF stored = compute_crcs(buf) THEN stored ELSE compute_crcs(buf)

\* Rom::update
Update ==
    /\ RomReady
    /\ body' = update_table_data(body, table)
    /\ crc' = correct_crc(crc, body')
    /\ rom_op' = "update"
    /\ rom_ret' = RomReturn("Ok", 0)
    /\ UNCHANGED <<overflow_checks, header_offset, current, parse_end,
                   table_entries, parse_pc, parse_result, table,
                   entry_vars, decompress_vars, find_vars,
                   image_crc, writer, header_vars, codec_vars,
                   convert_vars>>

\* check_crc: whether the stored checksums equal the computed ones, and the
\* computed ones.
check_crc(stored, buf) ==
    [result |-> stored = compute_crcs(buf), calc |-> compute_crcs(buf)]

\* The bool a Rom operation returns, as a RomReturn.
RomBool(b) == RomReturn(IF b THEN "true" ELSE "false", 0)

\* A Rom was read; check_crc and correct_crc may follow one another.
CrcReady ==
    /\ parse_pc = "done"
    /\ parse_result = "Ok"
    /\ rom_op \in {"none", "check_crc", "correct_crc"}

\* Rom::check_crc (n64rom)
CheckCrc ==
    /\ CrcReady
    /\ rom_op' = "check_crc"
    /\ rom_ret' = RomBool(check_crc(crc, body).result)
    /\ UNCHANGED <<overflow_checks, body, crc, header_offset, current,
                   parse_end, table_entries, parse_pc, parse_result, table,
                   image_crc, writer, entry_vars, decompress_vars, find_vars,
                   header_vars, codec_vars, convert_vars>>

\* Rom::correct_crc (n64rom)
CorrectCrc ==
    /\ CrcReady
    /\ rom_op' = "correct_crc"
    /\ rom_ret' = RomBool(check_crc(crc, body).result)
    /\ crc' = correct_crc(crc, body)
    /\ UNCHANGED <<overflow_checks, body, header_offset, current,
                   parse_end, table_entries, parse_pc, parse_result, table,
                   image_crc, writer, entry_vars, decompress_vars, find_vars,
                   header_vars, codec_vars, convert_vars>>

\* A flush that leaves the head of the image as it is.
flush_stale(head, stored) == head

\* Rom::flush (n64rom): the header is written over the head of the image;
\* the checksum fields of the image become the header's.
flush(head, stored) == stored

\* The image the writer holds: the checksum fields of its head and its body.
Image(head, buf) == [crc |-> head, body |-> buf]

\* Rom::write_raw (n64rom): Writer::write_all(writer, &self.image, order).
\* A writer that accepts the image holds all of it afterwards; a writer that
\* fails (modelled at its first byte) holds nothing.
write_raw(head, buf, accepts) ==
    IF accepts
    THEN [writer |-> Some(Image(head, buf)),
          ret |-> RomReturn("Ok", HEAD_SIZE + Len(buf))]
    ELSE [writer |-> None, ret |-> RomReturn("Err", 0)]

\* Rom::write: the container's write, flush and then write_raw.
Write ==
    /\ RomReady
    /\ image_crc' = flush(image_crc, crc)
    /\ \E accepts \in BOOLEAN :
           LET out == write_raw(image_crc', body, accepts)
           IN  /\ writer' = out.writer
               /\ rom_ret' = out.ret
    /\ rom_op' = "write"
    /\ UNCHANGED <<overflow_checks, body, crc, header_offset, current,
                   parse_end, table_entries, parse_pc, parse_result, table,
                   entry_vars, decompress_vars, find_vars,
                   header_vars, codec_vars, convert_vars>>

\* Rom::write_with_update: update (update_table_data, then correct_crc),
\* then write (flush, then write_raw).
WriteWithUpdate ==
    /\ RomReady
    /\ body' = update_table_data(body, table)
    /\ crc' = correct_crc(crc, body')
    /\ image_crc' = flush(image_crc, crc')
    /\ \E accepts \in BOOLEAN :
           LET out == write_raw(image_crc', body', accepts)
           IN  /\ writer' = out.writer
               /\ rom_ret' = out.ret
    /\ rom_op' = "write_with_update"
    /\ UNCHANGED <<overflow_checks, header_offset, current,
                   parse_end, table_entries, parse_pc, parse_result, table,
                   entry_vars, decompress_vars, find_vars,
                   header_vars, codec_vars, convert_vars>>

\* The patches applied: at the start, inside, across the end, at the end and
\* past the end of the body; no bytes, one byte, eight bytes.
PatchOffsets == {0, 8, Len(body) - 4, Len(body), Len(body) + 4}

PatchBytes == {<<>>, <<7>>, <<1, 2, 3, 4, 5, 6, 7, 8>>}

NextRom ==
    \/ TableFindBegin
    \/ TableFindEntry
    \/ RomFrom
    \/ \E off \in PatchOffsets : \E bytes \in PatchBytes : Patch(off, bytes)
    \/ Update
    \/ CheckCrc
    \/ CorrectCrc
    \/ Write
    \/ WriteWithUpdate

SpecRom == InitRom /\ [][NextRom]_vars

(***************************************************************************)
(* Table::find_header and Header::parse (dma.rs, util.rs)                  *)
(***************************************************************************)
\* Size of the build date field that follows the version string.
BUILD_DATE_SIZE == 32

\* b"zelda@srd022j" and b"zelda@srd44"
SRD022J == TABLE_MAGIC \o <<48, 50, 50, 106>>
SRD44 == TABLE_MAGIC \o <<52, 52>>

\* A Version::from that goes by the length of the string alone.
version_from_length(bytes) ==
    IF Len(bytes) = Len(SRD022J) THEN "Srd022J"
    ELSE IF Len(bytes) = Len(SRD44) THEN "Srd44"
    ELSE "Unknown"

\* Version::from
version_from(bytes) ==
    IF bytes = SRD022J THEN "Srd022J"
    ELSE IF bytes = SRD44 THEN "Srd44"
    ELSE "Unknown"

\* util::read_until(stream, expected, maximum) on a Cursor over buf at pos:
\* bytes are read one at a time until one equals expected or maximum bytes
\* were read; reading past the end of buf is an I/O error.
read_until(buf, pos, expected, maximum) ==
    LET hits == {k \in 1..maximum :
                    pos + k <= Len(buf) /\ buf[pos + k] = expected}
    IN  IF hits # {}
        THEN LET k == CHOOSE h \in hits : \A g \in hits : h <= g
             IN  [err |-> FALSE, found |-> TRUE,
                  vec |-> SubSeq(buf, pos + 1, pos + k - 1), pos |-> pos + k]
        ELSE IF pos + maximum > Len(buf)
        THEN [err |-> TRUE, found |-> FALSE, vec |-> <<>>, pos |-> Len(buf)]
        ELSE [err |-> FALSE, found |-> FALSE,
              vec |-> SubSeq(buf, pos + 1, pos + maximum),
              pos |-> pos + maximum]

\* A get_align that gives the distance from the boundary before.
get_align_back(position, align) == position % align

\* util::get_align
get_align(position, align) == align - (position % align)

\* util::align_forward: the position seeked to.
align_forward(position, align) == position + get_align(position, align)

\* stream.read_exact of n bytes on a Cursor over buf at pos.
read_exact(buf, pos, n) ==
    IF pos + n <= Len(buf)
    THEN [err |-> FALSE, pos |-> pos + n]
    ELSE [err |-> TRUE, pos |-> Len(buf)]

\* Version::read_build_date at cursor position pos of the header bytes: the
\* position afterwards and the field read.
read_build_date(v, buf, pos) ==
    LET from == IF v = "Srd022J" THEN align_forward(pos, TABLE_ALIGN) ELSE pos
        size == IF v = "Srd022J" THEN BUILD_DATE_SIZE
                ELSE BUILD_DATE_SIZE + get_align(pos, TABLE_ALIGN)
        got == read_exact(buf, from, size)
    IN  [err |-> got.err, pos |-> got.pos,
         field |-> IF got.err THEN None ELSE Some(Range(from, got.pos))]

\* The streams read: zero bytes up to the offset find_offset returned, then
\* the magic followed by a suffix, a terminator (or another filling byte in
\* its place), filling bytes up to 0x30 and zero bytes after; cut off after
\* keep bytes.
VersionSuffixes ==
    {<<48, 50, 50, 106>>, <<52, 52>>, <<>>, <<52, 53>>, <<48, 50, 50>>,
     <<52, 52, 120>>, <<48, 50, 50, 106, 48, 48, 48>>}

MakeHeaderStream(off, suffix, terminated, fill, keep) ==
    LET text == TABLE_MAGIC \o suffix
    IN  [i \in 1..(off + keep) |->
            IF i <= off THEN 0
            ELSE IF i - off <= Len(text) THEN text[i - off]
            ELSE IF i - off = Len(text) + 1 /\ terminated THEN 0
            ELSE IF i - off <= HEADER_SIZE THEN fill
            ELSE 0]

InitHeader ==
    /\ overflow_checks \in BOOLEAN
    /\ hoffset \in TableOffsets
    /\ \E suffix \in VersionSuffixes : \E terminated \in BOOLEAN :
       \E fill \in {0, 68} :
       \E keep \in {HEADER_SIZE - 8, HEADER_SIZE, HEADER_SIZE + ENTRY_SIZE} :
           hstream = MakeHeaderStream(hoffset, suffix, terminated, fill, keep)
    /\ cursor = 0
    /\ version = "none"
    /\ date_field = None
    /\ hpc = "read"
    /\ hresult = "none"
    /\ table_start = None
    /\ EntryIdle
    /\ DecompressIdle
    /\ FindIdle
    /\ RomIdle
    /\ CodecIdle
    /\ ConvertIdle

\* The 0x30 bytes find_header reads at the offset.
HeaderRegion == SubSeq(hstream, hoffset + 1, hoffset + HEADER_SIZE)

\* find_header, lines 404-409: seek to the offset and read_exact 0x30 bytes.
FindHeaderRead ==
    /\ hpc = "read"
    /\ IF read_exact(hstream, hoffset, HEADER_SIZE).err
       THEN /\ hpc' = "done"
            /\ hresult' = "IOError"
       ELSE /\ hpc' = "parse"
            /\ UNCHANGED hresult
    /\ UNCHANGED <<overflow_checks, hstream, hoffset, cursor, version,
                   date_field, table_start, entry_vars, decompress_vars,
                   find_vars, rom_vars, codec_vars, convert_vars>>

\* Header::parse, lines 315-319 and 331-333: the version string is read up
\* to its terminator and looked up.
ParseVersion ==
    /\ hpc = "parse"
    /\ LET got == read_until(HeaderRegion, cursor, 0, TABLE_ALIGN)
       IN  /\ cursor' = got.pos
           /\ IF got.err
              THEN /\ hpc' = "done"
                   /\ hresult' = "IOError"
                   /\ UNCHANGED version
              ELSE IF ~got.found
              THEN /\ hpc' = "done"
                   /\ hresult' = "InvalidHeader"
                   /\ UNCHANGED version
              ELSE /\ version' = version_from(got.vec)
                   /\ IF version' = "Unknown"
                      THEN /\ hpc' = "done"
                           /\ hresult' = "UnknownVersion"
                      ELSE /\ hpc' = "date"
                           /\ UNCHANGED hresult
    /\ UNCHANGED <<overflow_checks, hstream, hoffset, date_field, table_start,
                   entry_vars, decompress_vars, find_vars, rom_vars,
                   codec_vars, convert_vars>>

\* Header::parse, lines 321-328, find_header, lines 410-412, and Table::find,
\* lines 354-358: the build date is read, the header is returned with its
\* offset, and the entries are read from offset + HEADER_SIZE on.
ParseBuildDate ==
    /\ hpc = "date"
    /\ LET got == read_build_date(version, HeaderRegion, cursor)
       IN  /\ cursor' = got.pos
           /\ date_field' = got.field
           /\ IF got.err
              THEN /\ hresult' = "IOError"
                   /\ UNCHANGED table_start
              ELSE /\ hresult' = "Ok"
                   /\ table_start' = Some(hoffset + HEADER_SIZE)
    /\ hpc' = "done"
    /\ UNCHANGED <<overflow_checks, hstream, hoffset, version, entry_vars,
                   decompress_vars, find_vars, rom_vars, codec_vars,
                   convert_vars>>

NextHeader == FindHeaderRead \/ ParseVersion \/ ParseBuildDate

SpecHeader == InitHeader /\ [][NextHeader]_vars

(***************************************************************************)
(* Entry::read and the encoding of entries and tables                      *)
(***************************************************************************)
\* Most entries in an encoded table.
MaxTable == 2

\* Field values whose four bytes differ from one another and from word to
\* word: 0, 1, 0x102, 0x01020304 and 0x7FFFFFFF.
CodecValues == {0, 1, 258, 16909060, 2147483647}

CodecEntries ==
    {Entry(vs, ve, ps, pe) : vs \in CodecValues, ve \in CodecValues,
                             ps \in CodecValues, pe \in CodecValues}

\* The entries tables are made of.
TableEntries ==
    {Entry(1, 258, 16909060, 2147483647), Entry(0, 0, 0, 0),
     Entry(2147483647, 16909060, 258, 1)}

InitCodec ==
    /\ overflow_checks \in BOOLEAN
    /\ enc_entries \in {<<e>> : e \in CodecEntries}
                       \cup SeqsUpTo(TableEntries, MaxTable)
    /\ enc_bytes = <<>>
    /\ dec_entries = <<>>
    /\ enc_pc = "write"
    /\ EntryIdle
    /\ DecompressIdle
    /\ FindIdle
    /\ RomIdle
    /\ HeaderIdle
    /\ ConvertIdle

\* table.write(&mut cursor) into an empty Vec.
TableWrite ==
    /\ enc_pc = "write"
    /\ enc_bytes' = table_write(enc_entries)
    /\ enc_pc' = "read"
    /\ UNCHANGED <<overflow_checks, enc_entries, dec_entries, entry_vars,
                   decompress_vars, find_vars, rom_vars, header_vars,
                   convert_vars>>

\* Entry::read on a reader over the bytes written, once per entry: 16 bytes
\* give an Entry, and when fewer than 16 bytes are left the reading ends.
EntryRead ==
    /\ enc_pc = "read"
    /\ LET pos == ENTRY_SIZE * Len(dec_entries)
       IN  IF pos + ENTRY_SIZE <= Len(enc_bytes)
           THEN /\ dec_entries' = Append(dec_entries, entry_read(enc_bytes, pos))
                /\ UNCHANGED enc_pc
           ELSE /\ enc_pc' = "done"
                /\ UNCHANGED dec_entries
    /\ UNCHANGED <<overflow_checks, enc_entries, enc_bytes, entry_vars,
                   decompress_vars, find_vars, rom_vars, header_vars,
                   convert_vars>>

NextCodec == TableWrite \/ EntryRead

SpecCodec == InitCodec /\ [][NextCodec]_vars

(***************************************************************************)
(* convert and convert_rom (convert.rs)                                    *)
(***************************************************************************)
\* Most conversions applied to one buffer.
MaxCalls == 3

\* enum Endianness
Endianness == {"Big", "Little", "Mixed"}

\* buf.swap(a, b), with the code's 0-based indices.
swap(buf, a, b) ==
    [i \in 1..Len(buf) |->
        IF i = a + 1 THEN buf[b + 1] ELSE IF i = b + 1 THEN buf[a + 1]
        ELSE buf[i]]

\* Perform 4-byte swap between Big Endian and Little Endian.
swap_big_little(buf) == swap(swap(buf, 0, 3), 1, 2)

\* Perform 4-byte swap between Big Endian and Mixed Endian.
swap_big_mixed(buf) == swap(swap(buf, 0, 1), 2, 3)

\* A swap between Little Endian and Mixed Endian that leaves out the second
\* pair.
swap_little_mixed_half(buf) == swap(buf, 0, 2)

\* Perform 4-byte swap between Little Endian and Mixed Endian.
swap_little_mixed(buf) == swap(swap(buf, 0, 2), 1, 3)

\* The swap the converter of byte order cur applies for target tgt (none
\* when they are the same).
swap_for(cur, tgt, chunk) ==
    IF {cur, tgt} = {"Big", "Little"} THEN swap_big_little(chunk)
    ELSE IF {cur, tgt} = {"Big", "Mixed"} THEN swap_big_mixed(chunk)
    ELSE IF {cur, tgt} = {"Little", "Mixed"}
    THEN swap_little_mixed(chunk)
    ELSE chunk

\* for chunk in buf.chunks_exact_mut(4) { swap(chunk) }: every whole chunk of
\* four bytes is swapped, a shorter rest is left as it is.
RECURSIVE swap_chunks(_, _, _)
swap_chunks(cur, tgt, buf) ==
    IF Len(buf) < 4 THEN buf
    ELSE swap_for(cur, tgt, SubSeq(buf, 1, 4))
         \o swap_chunks(cur, tgt, SubSeq(buf, 5, Len(buf)))

\* convert_with::<converter of cur>(buf, tgt)
convert_with(cur, buf, tgt) ==
    IF cur = tgt
    THEN [status |-> "AlreadyConverted", buf |-> buf]
    ELSE [status |-> "Complete", buf |-> swap_chunks(cur, tgt, buf)]

\* convert(buf, current, target): Ok(status) or Err(AlignmentError), and the
\* buffer afterwards.
convert(buf, cur, tgt) ==
    IF Len(buf) % 4 = 0
    THEN convert_with(cur, buf, tgt)
    ELSE [status |-> "AlignmentError", buf |-> buf]

\* The buffers converted: empty, misaligned, one and two chunks.
Buffers ==
    {<<>>, <<1, 2, 3>>, <<1, 2, 3, 4>>, <<7, 7, 9, 9>>, <<1, 2, 3, 4, 5>>,
     <<1, 2, 3, 4, 5, 6, 7, 8>>}

InitConvert ==
    /\ overflow_checks \in BOOLEAN
    /\ image \in Buffers
    /\ image0 = image
    /\ order \in Endianness
    /\ target = None
    /\ status = "none"
    /\ calls = 0
    /\ EntryIdle
    /\ DecompressIdle
    /\ FindIdle
    /\ RomIdle
    /\ HeaderIdle
    /\ CodecIdle

\* convert(&mut rom.image, current, target), called on the image with a byte
\* order the caller names.
Convert(cur, t) ==
    /\ calls < MaxCalls
    /\ LET out == convert(image, cur, t)
       IN  /\ image' = out.buf
           /\ status' = out.status
    /\ target' = None
    /\ calls' = calls + 1
    /\ UNCHANGED <<overflow_checks, image0, order, entry_vars,
                   decompress_vars, find_vars, rom_vars, header_vars,
                   codec_vars>>

\* convert_rom(rom, target)
ConvertRom(t) ==
    /\ calls < MaxCalls
    /\ LET out == convert(image, order, t)
       IN  /\ image' = out.buf
           /\ status' = out.status
    /\ target' = Some(t)
    /\ calls' = calls + 1
    /\ UNCHANGED <<overflow_checks, image0, order, entry_vars,
                   decompress_vars, find_vars, rom_vars, header_vars,
                   codec_vars>>

NextConvert ==
    \/ \E cur \in Endianness : \E t \in Endianness : Convert(cur, t)
    \/ \E t \in Endianness : ConvertRom(t)

SpecConvert == InitConvert /\ [][NextConvert]_vars

(***************************************************************************)
(* Claims about the Entry operations (checked under SpecEntry).            *)
(***************************************************************************)
AllZero(e) ==
    /\ e.virtual_start = 0
    /\ e.virtual_end = 0
    /\ e.physical_start = 0
    /\ e.physical_end = 0

BothMax(e) == e.physical_start = U32_MAX /\ e.physical_end = U32_MAX

\* C5: kind() returns exactly one kind for every entry, by precedence: Empty
\* iff all four fields are 0; otherwise DoesNotExist iff physical_start =
\* physical_end = u32::MAX; otherwise Decompressed iff physical_end = 0;
\* otherwise Compressed.
C5_KindPrecedence ==
    op = "kind" =>
        /\ ret.tag = "Ok"
        /\ ret.kind \in {"Empty", "DoesNotExist", "Decompressed", "Compressed"}
        /\ (ret.kind = "Empty") <=> AllZero(entry)
        /\ (ret.kind = "DoesNotExist") <=> (~AllZero(entry) /\ BothMax(entry))
        /\ (ret.kind = "Decompressed") <=>
               (~AllZero(entry) /\ ~BothMax(entry) /\ entry.physical_end = 0)
        /\ (ret.kind = "Compressed") <=>
               (~AllZero(entry) /\ ~BothMax(entry) /\ entry.physical_end # 0)

\* kind() was applied to an entry whose physical_start alone is u32::MAX and
\* said Compressed.
C5_Witness ==
    /\ op = "kind"
    /\ entry.physical_start = U32_MAX
    /\ entry.physical_end \notin {0, U32_MAX}
    /\ ret.kind = "Compressed"

\* C6: validate() fails with InvalidRange(Virtual, virtual range) for every
\* entry with virtual_start > virtual_end, whatever its physical fields are;
\* the virtual check comes before the physical one.
C6_VirtualRangeFirst ==
    (op = "validate" /\ entry.virtual_start > entry.virtual_end) =>
        ret = InvalidRange("Virtual",
                           Range(entry.virtual_start, entry.virtual_end))

\* validate() was applied to a Compressed entry whose two ranges are both
\* reversed, and reported the virtual one.
C6_Witness ==
    /\ op = "validate"
    /\ entry.virtual_start > entry.virtual_end
    /\ kind(entry) = "Compressed"
    /\ entry.physical_start > entry.physical_end
    /\ ret.tag = "Err"
    /\ ret.mapping = "Virtual"

\* The real physical range as the specification defines it, in unbounded
\* arithmetic: none for Empty / DoesNotExist, the stored range for
\* Compressed, [physical_start, physical_start + virtual length) for
\* Decompressed.
SpecRealRange(e) ==
    IF AllZero(e) \/ BothMax(e) THEN None
    ELSE IF e.physical_end = 0
    THEN Some(Range(e.physical_start,
                    e.physical_start + (e.virtual_end - e.virtual_start)))
    ELSE Some(Range(e.physical_start, e.physical_end))

\* C7: for an entry with virtual_start <= virtual_end, validate() returns the
\* real physical range (none for Empty / DoesNotExist), and fails with
\* InvalidRange(Physical, range) exactly when that real range has
\* start > end.
C7_ValidateRealRange ==
    (op = "validate" /\ entry.virtual_start <= entry.virtual_end) =>
        LET real == SpecRealRange(entry)
        IN  IF real # None /\ real[1].start > real[1].end
            THEN ret = InvalidRange("Physical", real[1])
            ELSE /\ ret.tag = "Ok"
                 /\ ret.virt = Some(virt(entry))
                 /\ ret.phys = real

\* C8: the range computations of real_phys / validate / diff never abort and
\* never wrap: they return an error value or the real range.
C8_RangeComputationsNeverOverflow ==
    op \in {"real_phys", "validate", "diff"} =>
        /\ ret.tag # "panic"
        /\ (ret.tag = "Ok" /\ ret.phys # None) =>
               ret.phys = SpecRealRange(entry)
        /\ (ret.tag = "Err" /\ ret.mapping = "Physical") =>
               ret.range = SpecRealRange(entry)

(***************************************************************************)
(* Claims about decompress_rom (checked under SpecDecompress).             *)
(***************************************************************************)
\* The input entry is classified Compressed or Decompressed.
IsFile(e) == ~AllZero(e) /\ ~BothMax(e)

VirtualLength(e) == e.virtual_end - e.virtual_start

\* This step of the loop processes the entry at index and goes on to the next.
Processes == pc = "loop" /\ index' = index + 1

\* The content the specification gives the output bytes of a file: the
\* source bytes of a Decompressed entry, the decoded bytes of a Compressed one.
FileByte(e, k) ==
    IF e.physical_end = 0
    THEN RawByte(e.physical_start + k)
    ELSE Yaz0Byte(e.physical_start, k)

\* C1: under the matching policy every Compressed / Decompressed entry that
\* is processed gets exactly its virtual range as output range: its bytes
\* (copied, or decoded) land at output offset virtual_start, no other byte of
\* the buffer changes, and the output entry keeps virtual_start and
\* virtual_end.
C1_MatchingOutputAtVirtual ==
    [][(matching /\ Processes /\ IsFile(rom_table[1][index])) =>
            LET e == rom_table[1][index]
                i == index
            IN  /\ Len(entries') = i
                /\ entries'[i].virtual_start = e.virtual_start
                /\ entries'[i].virtual_end = e.virtual_end
                /\ entries'[i].physical_start = e.virtual_start
                /\ \A a \in DOMAIN data :
                       IF e.virtual_start <= a /\ a < e.virtual_end
                       THEN data'[a] = FileByte(e, a - e.virtual_start)
                       ELSE data'[a] = data[a]
      ]_vars

\* A matching run succeeded on a table with a compressed file and a raw file
\* at different non-zero lengths' worth of addresses: both sit at their
\* virtual start.
C1_Witness ==
    /\ result = "Ok"
    /\ matching
    /\ \E i, j \in 1..Len(entries) :
           /\ rom_table[1][i].physical_end # 0
           /\ rom_table[1][i] = Entry(0, 16, StoredAt, StoredAt + 8)
           /\ data[0] = Yaz0Byte(StoredAt, 0)
           /\ data[15] = Yaz0Byte(StoredAt, 15)
           /\ rom_table[1][j] = Entry(16, 32, StoredAt, 0)
           /\ data[16] = RawByte(StoredAt)
           /\ data[31] = RawByte(StoredAt + 15)
           /\ entries[j].physical_start = 16

\* A length rounded up to the next multiple of 16.
RoundUp16(n) == ((n + 15) \div 16) * 16

\* The compact policy's cursor after the first n entries of table t.
RECURSIVE Cursor(_, _)
Cursor(t, n) ==
    IF n = 0 THEN 0
    ELSE Cursor(t, n - 1)
         + (IF IsFile(t[n]) THEN RoundUp16(VirtualLength(t[n])) ELSE 0)

\* C2: under the compact policy the output ranges are allocated from a
\* cursor that starts at 0 and advances by each file's virtual length
\* rounded up to 16: every output entry starts at a multiple of 16, at the
\* end of the previous allocated range, and Empty / DoesNotExist entries do
\* not advance the cursor.
C2_CompactLayout ==
    (~matching /\ rom_table # None /\ pc \in {"loop", "done"}) =>
        /\ \A i \in 1..Len(entries) :
               IsFile(rom_table[1][i]) =>
                   /\ entries[i].physical_start % 16 = 0
                   /\ entries[i].physical_start = Cursor(rom_table[1], i - 1)
        /\ pc = "loop" => offset = Cursor(rom_table[1], Len(entries))

\* C3: every output entry made for a Compressed / Decompressed input entry
\* has the input's virtual_start and virtual_end, physical_end = 0,
\* physical_start at the start of its output range, and is classified
\* Decompressed.
C3_OutputEntriesDecompressed ==
    rom_table # None =>
        \A i \in 1..Len(entries) :
            IsFile(rom_table[1][i]) =>
                /\ entries[i].virtual_start = rom_table[1][i].virtual_start
                /\ entries[i].virtual_end = rom_table[1][i].virtual_end
                /\ entries[i].physical_end = 0
                /\ matching => entries[i].physical_start = entries[i].virtual_start
                /\ kind(entries[i]) = "Decompressed"

\* C4: a successful run returns as many entries as the input table has, in
\* the same order, and an Empty / DoesNotExist entry is carried over
\* unchanged in all four fields with no byte of the buffer written for it.
C4_SameCountUnmappedUnchanged ==
    [][/\ result' = "Ok" =>
            /\ Len(entries') = Len(rom_table[1])
            /\ \A i \in 1..Len(rom_table[1]) :
                   /\ entries'[i].virtual_start = rom_table[1][i].virtual_start
                   /\ entries'[i].virtual_end = rom_table[1][i].virtual_end
                   /\ ~IsFile(rom_table[1][i]) => entries'[i] = rom_table[1][i]
       /\ (Processes /\ ~IsFile(rom_table[1][index])) =>
            /\ data' = data
            /\ entries' = Append(entries, rom_table[1][index])
      ]_vars

\* A run succeeded on a table that holds a DoesNotExist entry after a file.
C4_Witness ==
    /\ result = "Ok"
    /\ Len(entries) = 2
    /\ IsFile(rom_table[1][1])
    /\ VirtualLength(rom_table[1][1]) > 0
    /\ BothMax(rom_table[1][2])
    /\ entries[2] = rom_table[1][2]

(***************************************************************************)
(* Claims about Table::find_offset (checked under SpecFind).               *)
(***************************************************************************)
\* The 9 bytes of the stream from offset o on are the magic.
OccursAt(o) ==
    /\ o + 9 <= Len(stream)
    /\ \A k \in 0..8 : stream[o + k + 1] = TABLE_MAGIC[k + 1]

AlignedOffsets == {o \in 0..Len(stream) : o % 16 = 0}

\* ceil(n / 16)
CeilDiv16(n) == (n + 15) \div 16

\* C9: over a stream of any length with no magic at a 16-aligned offset the
\* scan stops within ceil(len / 16) + 1 iterations (while it is still
\* scanning it has used fewer, and each step is one iteration), reports
\* not-found, and no read goes past the end of the stream.
C9_ScanBounded ==
    (\A o \in AlignedOffsets : ~OccursAt(o)) =>
        /\ found = None
        /\ reads <= CeilDiv16(Len(stream)) + 1
        /\ scan_pc = "loop" => reads <= CeilDiv16(Len(stream))
        /\ amount <= 9
        /\ reads > 0 => 16 * (reads - 1) + amount <= Len(stream) \/ amount = 0

\* The scan reported not-found on a stream whose length is no multiple of 16
\* and which ends in the first bytes of the magic, at an aligned offset.
C9_Witness ==
    /\ scan_pc = "done"
    /\ found = None
    /\ Len(stream) % 16 # 0
    /\ reads = CeilDiv16(Len(stream))
    /\ \E o \in AlignedOffsets :
           /\ 0 < o /\ o < Len(stream) /\ Len(stream) < o + 9
           /\ \A k \in 0..(Len(stream) - o - 1) :
                  stream[o + k + 1] = TABLE_MAGIC[k + 1]

\* C10: the scan examines the offsets 0, 16, 32, ... in increasing order and
\* returns the smallest multiple of 16 at which the magic occurs; an
\* occurrence at any other offset is never reported, and it reports
\* not-found only when the magic occurs at no aligned offset.
C10_SmallestAlignedMatch ==
    /\ scan_offset % 16 = 0
    /\ scan_pc = "loop" => scan_offset = 16 * reads
    /\ scan_pc = "done" => scan_offset = 16 * (reads - 1)
    /\ found # None =>
           /\ found[1] % 16 = 0
           /\ OccursAt(found[1])
           /\ \A o \in AlignedOffsets : o < found[1] => ~OccursAt(o)
    /\ (scan_pc = "done" /\ found = None) =>
           \A o \in AlignedOffsets : ~OccursAt(o)

\* The scan passed a whole magic at an unaligned offset and returned a later
\* aligned one.
C10_Witness ==
    /\ scan_pc = "done"
    /\ found # None
    /\ found[1] > 0
    /\ \E p \in 0..Len(stream) :
           p % 16 # 0 /\ p + 9 <= found[1] /\ OccursAt(p)

(***************************************************************************)
(* Claims about Table::find (checked under SpecRom).                       *)
(***************************************************************************)
\* Where the first stored entry lies, and the table's begin address.
FirstPosition == header_offset[1] + HEADER_SIZE

TableBegin == FirstPosition + HEAD_SIZE

\* The number of whole entries stored from FirstPosition on, and the k-th.
StoredCount == (Len(body) - FirstPosition) \div ENTRY_SIZE

Position(k) == FirstPosition + (k - 1) * ENTRY_SIZE

Stored(k) == entry_read(body, Position(k))

IsSelf(k) == Stored(k).virtual_start = TableBegin

HasSelf == \E k \in 1..StoredCount : IsSelf(k)

FirstSelf ==
    CHOOSE k \in 1..StoredCount : IsSelf(k) /\ \A j \in 1..(k - 1) : ~IsSelf(j)

\* The stopping boundary: the self-referential entry's virtual_end as a
\* position in the body.
Boundary == Stored(FirstSelf).virtual_end - HEAD_SIZE

BeforeBoundary == {k \in 1..StoredCount : Position(k) < Boundary}

\* C11: parsing takes the first entry whose virtual_start is the table's
\* begin address as the self-referential entry and its virtual_end as the
\* stopping boundary, and halts when the cursor reaches the boundary: the
\* parse of an image whose boundary lies within it succeeds, and the parsed
\* table is exactly the entries at positions before the boundary.
C11_ParsedUpToBoundary ==
    (parse_pc = "done" /\ header_offset # None /\ HasSelf) =>
        /\ parse_result # "panic"
        /\ Boundary <= Len(body) => parse_result = "Ok"
        /\ parse_result = "Ok" =>
               table_entries =
                   [k \in 1..Cardinality(BeforeBoundary) |-> Stored(k)]

\* C12: the boundary `end` starts unknown and is assigned exactly once, by
\* an entry whose virtual_start is the table's begin address; once known it
\* never changes, whatever the later entries hold.
C12_EndFixedOnce ==
    [][parse_pc = "loop" =>
           /\ parse_end # None => parse_end' = parse_end
           /\ (parse_end = None /\ parse_end' # None) =>
                  entry_read(body, current).virtual_start = TableBegin
      ]_vars

(***************************************************************************)
(* Claims about the errors of decompress_rom (checked under                *)
(* SpecDecompress).                                                        *)
(***************************************************************************)
\* The loop is about to handle the entry at index.
AtEntry == pc = "loop" /\ rom_table # None /\ index <= Len(rom_table[1])

\* The entry at index passes validate() with a physical range, its input
\* slice lies in the source image, and an output range is computed for it.
ComputesOutrange ==
    /\ AtEntry
    /\ LET e == rom_table[1][index]
           v == validate(e)
       IN  /\ v.tag = "Ok"
           /\ v.phys # None
           /\ slice_in_bounds(e)
           /\ ~outrange(v.virt[1], offset).panic

Outrange == outrange(validate(rom_table[1][index]).virt[1], offset).range

\* C13: when the output range computed for an entry ends past the capacity
\* of the output buffer, under either policy, decompress_rom fails with
\* OutOfRangeError carrying that range; it returns no Rom and writes nothing.
C13_OutOfRangeError ==
    [][(ComputesOutrange /\ Outrange.end > ROM_CAPACITY) =>
           /\ result' = "OutOfRangeError"
           /\ err_range' = Some(Outrange)
           /\ pc' = "done"
           /\ data' = data
           /\ entries' = entries
      ]_vars

\* A compact run failed with OutOfRangeError on its second file, whose range
\* starts at the cursor and ends past the capacity.
C13_Witness ==
    /\ result = "OutOfRangeError"
    /\ ~matching
    /\ index = 2
    /\ err_range # None
    /\ err_range[1].start > 0
    /\ err_range[1].end > ROM_CAPACITY

\* C14: when the real physical range of an entry ends past the end of the
\* source image, slicing the input fails with an OutOfRangeError value.
C14_InputSliceError ==
    [][(AtEntry
        /\ LET v == validate(rom_table[1][index])
           IN  v.tag = "Ok" /\ v.phys # None /\ v.phys[1].end > image_len) =>
           result' = "OutOfRangeError"
      ]_vars

\* C15: for a Decompressed entry the input is copied only when input and
\* output slice have the same length, and a mismatch is an error value: the
\* step neither copies a part nor aborts.
C15_CopyLengthsMatch ==
    [][(ComputesOutrange
        /\ kind(rom_table[1][index]) = "Decompressed"
        /\ get_mut_ok(Outrange)) =>
           LET input == range_usize(rom_table[1][index])[1]
           IN  IF RangeLen(Outrange) = RangeLen(input)
               THEN index' = index + 1
               ELSE /\ result' \notin {"none", "Ok", "panic"}
                    /\ data' = data
      ]_vars

\* C16: the output buffer has the capacity's length and starts all-zero;
\* after a successful run every byte outside the exact length of every file
\* (gaps, alignment padding, the tail) is zero.
C16_UnresolvedBytesZero ==
    /\ pc \in {"loop", "done"} => DOMAIN data = 0..(ROM_CAPACITY - 1)
    /\ (pc = "loop" /\ index = 1) => \A a \in DOMAIN data : data[a] = Zero
    /\ result = "Ok" =>
           \A a \in DOMAIN data :
               (~\E i \in 1..Len(entries) :
                     /\ IsFile(rom_table[1][i])
                     /\ entries[i].physical_start <= a
                     /\ a < entries[i].physical_start
                            + VirtualLength(rom_table[1][i]))
               => data[a] = Zero

\* C17: on a Rom without a table the table-dependent operations are no-ops
\* or return an error; decompress_rom does not abort.
C17_NoTableNoAbort ==
    rom_table = None => result # "panic"

(***************************************************************************)
(* Claims about the Rom wrapper (checked under SpecRom).                   *)
(***************************************************************************)
\* C18: patch(offset, bytes) writes all of bytes at offset and leaves every
\* other byte of the body unchanged; when offset + bytes.len() exceeds the
\* body it fails with an error and does not report a success.
C18_PatchAllOrError ==
    [][\A off \in PatchOffsets : \A bytes \in PatchBytes :
           Patch(off, bytes) =>
               IF off + Len(bytes) <= Len(body)
               THEN /\ rom_ret'.tag = "Ok"
                    /\ Len(body') = Len(body)
                    /\ \A i \in 1..Len(body) :
                           body'[i] = IF off < i /\ i <= off + Len(bytes)
                                      THEN bytes[i - off]
                                      ELSE body[i]
               ELSE rom_ret'.tag = "Err"
      ]_vars

\* This step is a call of update.
IsUpdate == rom_op = "none" /\ rom_op' = "update"

\* The span update patches: from the table's offset, 16 bytes per entry.
InPatched(i) ==
    /\ table # None
    /\ table[1].offset < i
    /\ i <= table[1].offset + ENTRY_SIZE * Len(table[1].entries)

\* C19: update with a table writes the encoded table over exactly the span
\* the table occupied when it was parsed, from the table's offset and 16
\* bytes per entry long, and changes neither the number of entries nor the
\* length of the image; without a table it changes no byte.
C19_UpdateOverwritesTableSpan ==
    [][IsUpdate =>
           /\ Len(body') = Len(body)
           /\ table' = table
           /\ \A i \in 1..Len(body) : ~InPatched(i) => body'[i] = body[i]
           /\ table # None =>
                  LET t == table[1]
                      n == Len(t.entries)
                  IN  /\ \A i \in 1..(ENTRY_SIZE * n) :
                             body'[t.offset + i] = table_write(t.entries)[i]
                      /\ n = Len(table_entries)
                      /\ \A k \in 1..n :
                             entry_read(body, t.offset + (k - 1) * ENTRY_SIZE)
                                 = table_entries[k]
      ]_vars

\* C20: update on a Rom whose stored checksums match the computed ones
\* leaves the bytes outside the patched span as they were and the stored
\* checksums unchanged; when the table's entries are the parsed ones the
\* whole image is unchanged.
C20_UpdateKeepsCorrectImage ==
    [][(IsUpdate /\ crc = compute_crcs(body)) =>
           /\ \A i \in 1..Len(body) : ~InPatched(i) => body'[i] = body[i]
           /\ crc' = crc
           /\ (table # None /\ table[1].entries = table_entries) =>
                  body' = body
      ]_vars

(***************************************************************************)
(* Claims about writing a Rom (checked under SpecRom).                     *)
(***************************************************************************)
\* The body after the encoded table was patched back at the table's offset.
PatchedBack ==
    IF table = None THEN body
    ELSE cursor_write(body, table[1].offset, table_write(table[1].entries)).buf

\* This step is a call of write_with_update.
IsWriteWithUpdate == rom_op = "none" /\ rom_op' = "write_with_update"

C28_WrittenChecksumsOfPatchedBody ==
    /\ (rom_op = "write_with_update" /\ writer # None) =>
           /\ writer[1].crc = compute_crcs(writer[1].body)
           /\ writer[1].body = body
           /\ body = PatchedBack
    /\ (rom_op = "write" /\ writer # None) =>
           /\ writer[1].crc = crc
           /\ writer[1].body = body

\* write_with_update has written an image whose body holds entries where
\* the table header was read, with the checksums of that body in its head.
C28_Witness ==
    /\ rom_op = "write_with_update"
    /\ writer # None
    /\ table # None
    /\ Len(table[1].entries) > 0
    /\ writer[1].body[table[1].offset + 1] # TABLE_MAGIC[1]
    /\ writer[1].crc = compute_crcs(writer[1].body)

(***************************************************************************)
(* Claims about the checksums (checked under SpecRom).                     *)
(***************************************************************************)
\* This step is a call of correct_crc.
IsCorrectCrc == rom_op' = "correct_crc"

\* C26: correct_crc returns true exactly when the stored checksums already
\* equalled the computed ones and leaves them unchanged then; otherwise it
\* rewrites them to the computed ones; it changes nothing else.  A check_crc
\* right after a correct_crc reports correct, and a second correct_crc
\* returns true and changes nothing.
C26_CorrectCrc ==
    [][/\ IsCorrectCrc =>
              /\ rom_ret'.tag = "true" <=> crc = compute_crcs(body)
              /\ crc = compute_crcs(body) => crc' = crc
              /\ crc' = compute_crcs(body)
              /\ body' = body
              /\ image_crc' = image_crc
       /\ (rom_op = "correct_crc" /\ rom_op' = "check_crc") =>
              rom_ret'.tag = "true"
       /\ (rom_op = "correct_crc" /\ IsCorrectCrc) =>
              /\ rom_ret'.tag = "true"
              /\ crc' = crc
      ]_vars

\* correct_crc found the stored checksums wrong, said so and rewrote them.
C26_Witness ==
    /\ rom_op = "correct_crc"
    /\ rom_ret.tag = "false"
    /\ crc = compute_crcs(body)
    /\ image_crc # crc

(***************************************************************************)
(* Claims about the termination of Table::find (checked under SpecRom).    *)
(***************************************************************************)
\* C27: the entry loop of Table::find ends on every input with a Table or an
\* error value: the cursor never passes the end of the input, so the loop
\* takes at most one step per stored entry and one more; when no entry with
\* virtual_start equal to the table's begin address is stored it ends with
\* an I/O error; and the boundary computed from a self-referential entry
\* whose virtual_end is smaller than the head size neither aborts nor wraps.
C27_FindEndsWithoutUnderflow ==
    /\ parse_result \in {"none", "Ok", "IOError"}
    /\ parse_pc = "loop" => current <= Len(body)
    /\ parse_end # None => parse_end[1] <= U32_MAX
    /\ (parse_pc = "done" /\ header_offset # None /\ ~HasSelf) =>
           parse_result = "IOError"

(***************************************************************************)
(* Claims about Entry::diff (checked under SpecEntry).                     *)
(***************************************************************************)
\* C22: diff returns the validation error for an invalid entry (the virtual
\* range first), None for Empty and DoesNotExist, and for a valid Compressed
\* or Decompressed entry the virtual length minus the length of the real
\* physical range: Some(60) for a virtual length of 100 and a physical length
\* of 40, a negative value when the physical span is the longer one, and
\* always Some(0) for Decompressed.  It returns in every case.
C22_DiffIsVirtualMinusRealPhysical ==
    op = "diff" =>
        IF entry.virtual_start > entry.virtual_end
        THEN ret = InvalidRange("Virtual", virt(entry))
        ELSE LET real == SpecRealRange(entry)
                 vlen == entry.virtual_end - entry.virtual_start
             IN  IF real = None THEN ret = OkDiff(None)
                 ELSE IF real[1].start > real[1].end
                 THEN ret = InvalidRange("Physical", real[1])
                 ELSE IF real[1].end > U32_MAX
                 THEN \* a real range no u32 range can hold: valid (Some(0))
                      \* or invalid (the validation error)
                      ret = OkDiff(Some(0)) \/ ret.tag = "Err"
                 ELSE /\ ret = OkDiff(Some(vlen - (real[1].end - real[1].start)))
                      /\ kind(entry) = "Decompressed" => ret = OkDiff(Some(0))
                      /\ (vlen = 100 /\ real[1].end - real[1].start = 40) =>
                             ret = OkDiff(Some(60))

(***************************************************************************)
(* Claims about the encoding of entries (checked under SpecCodec).         *)
(***************************************************************************)
\* Byte j (1..4, most significant first) of a 32-bit word.
ByteOf(w, j) == (w \div Pow2(8 * (4 - j))) % 256

\* C23: the bytes encoded for n entries are exactly 16 * n bytes, the four
\* fields of each entry in the order virtual_start, virtual_end,
\* physical_start, physical_end as big-endian 32-bit words; and every entry
\* decoded from them equals the entry encoded, in all four fields.
C23_EntryRoundTrip ==
    enc_pc \in {"read", "done"} =>
        /\ Len(enc_bytes) = ENTRY_SIZE * Len(enc_entries)
        /\ \A k \in 1..Len(enc_entries) : \A f \in 1..4 : \A j \in 1..4 :
               enc_bytes[ENTRY_SIZE * (k - 1) + 4 * (f - 1) + j]
                   = ByteOf(to_vec(enc_entries[k])[f], j)
        /\ \A k \in 1..Len(dec_entries) : dec_entries[k] = enc_entries[k]
        /\ enc_pc = "done" => dec_entries = enc_entries

\* Two entries whose sixteen fields' bytes all differ were encoded and read
\* back.
C23_Witness ==
    /\ enc_pc = "done"
    /\ Len(enc_entries) = 2
    /\ enc_entries[1] = Entry(1, 258, 16909060, 2147483647)
    /\ enc_entries[2] = Entry(2147483647, 16909060, 258, 1)
    /\ dec_entries = enc_entries
    /\ Len(enc_bytes) = 32

(***************************************************************************)
(* Claims about the table header (checked under SpecHeader).               *)
(***************************************************************************)
\* The 0x30 header bytes were there to be read.
RegionRead == Len(hstream) >= hoffset + HEADER_SIZE

\* The version string has its null terminator within the 16 bytes of its
\* field.
TerminatedInField == \E k \in 1..TABLE_ALIGN : HeaderRegion[k] = 0

\* The version string: the bytes before the first null byte.
VersionString ==
    LET k == CHOOSE h \in 1..TABLE_ALIGN :
                 HeaderRegion[h] = 0 /\ \A g \in 1..(h - 1) : HeaderRegion[g] # 0
    IN  SubSeq(HeaderRegion, 1, k - 1)

C25_HeaderRegionConsumedExactly ==
    /\ cursor <= HEADER_SIZE
    /\ (hpc = "done" /\ version \in {"Srd022J", "Srd44"}) =>
           /\ hresult = "Ok"
           /\ cursor = HEADER_SIZE
           /\ version = "Srd022J" =>
                  date_field = Some(Range(TABLE_ALIGN,
                                          TABLE_ALIGN + BUILD_DATE_SIZE))
           /\ version = "Srd44" =>
                  date_field = Some(Range(Len(SRD44) + 1, HEADER_SIZE))
           /\ table_start = Some(hoffset + HEADER_SIZE)

\* An srd022j header found at offset 0x10 was parsed to its end.
C25_Witness ==
    /\ hpc = "done"
    /\ hoffset = TABLE_ALIGN
    /\ version = "Srd022J"
    /\ date_field # None
    /\ RangeLen(date_field[1]) = BUILD_DATE_SIZE
    /\ cursor = HEADER_SIZE

(***************************************************************************)
(* Claims about the byte order conversion (checked under SpecConvert).     *)
(***************************************************************************)
\* C29: on a buffer whose length is a multiple of 4, converting a to b and
\* back restores the bytes, converting a to b and then b to c equals
\* converting a to c, and converting a to a changes nothing and reports
\* AlreadyConverted; on any other buffer convert returns AlignmentError and
\* changes nothing.
C29_ConvertGroupAction ==
    \A a \in Endianness : \A b \in Endianness : \A c \in Endianness :
        LET ab == convert(image, a, b)
        IN  IF Len(image) % 4 = 0
            THEN /\ ab.status = IF a = b THEN "AlreadyConverted" ELSE "Complete"
                 /\ Len(ab.buf) = Len(image)
                 /\ convert(ab.buf, b, a).buf = image
                 /\ convert(ab.buf, b, c).buf = convert(image, a, c).buf
                 /\ a = b => ab.buf = image
            ELSE /\ ab.status = "AlignmentError"
                 /\ ab.buf = image

\* Two completed conversions of an eight-byte buffer that changed it and
\* then restored it.
C29_Witness ==
    /\ calls = 2
    /\ status = "Complete"
    /\ Len(image0) = 8
    /\ image = image0
    /\ convert(image, "Little", "Mixed").buf # image

\* C30: after a successful convert_rom(rom, target) the order the Rom
\* records is target, and a second convert_rom(rom, target) reports
\* AlreadyConverted and leaves the image unchanged.
C30_ConvertRomIdempotent ==
    [][\A t \in Endianness :
           /\ (ConvertRom(t) /\ status' \in {"Complete", "AlreadyConverted"}) =>
                  order' = t
           /\ (ConvertRom(t) /\ target = Some(t)
                   /\ status \in {"Complete", "AlreadyConverted"}) =>
                  /\ status' = "AlreadyConverted"
                  /\ image' = image
      ]_vars

====
